---- MODULE Spec2Model ----
(***************************************************************************)
(* Model of the automatic course scheduler of app.py: the catalog built    *)
(* from the uploaded timetable, the "Generate" handler (filter by leave    *)
(* days and teachers, exhaustive search over itertools.product, conflict   *)
(* explanation), and the pure overlap/conflict functions.                  *)
(*                                                                         *)
(* A time string is the pair <<hh, mm>> of the two 2-digit numbers the     *)
(* catalog regex \d{2}:\d{2} captures.  A Course carries only the fields   *)
(* the handler reads for filtering and searching (code, section,          *)
(* instructor, schedule); name, dates and credits are display-only.        *)
(***************************************************************************)
EXTENDS Integers, Sequences, FiniteSets, TLC

VARIABLES
    pc,                     \* position of the script / handler
    courses_by_code,        \* code -> list of Course, in catalog order
    selected_course_codes,  \* list of checked course codes
    leave_days,             \* list of checked leave days
    teacher_preferences,    \* code -> set of checked instructors (only non-empty entries)
    filtered_sections,      \* code -> filtered list of Course
    position,               \* index vector of the next tuple product() yields, None when exhausted
    inspected,              \* the tuples (as index vectors) the search loop has examined, in order
    best_schedule,          \* result of find_best_schedule
    examined,               \* requirement pairs the explanation loop has looked at
    warnings,               \* requirement pairs reported as conflicting in ALL sections
    course1, course2,       \* arguments of a has_conflict call
    conflict                \* result of that call

vars == <<pc, courses_by_code, selected_course_codes, leave_days, teacher_preferences,
          filtered_sections, position, inspected, best_schedule, examined, warnings,
          course1, course2, conflict>>

----------------------------------------------------------------------------
(* Bounds of the model *)

\* most course sections in one uploaded timetable
MaxCourses == 4
\* most time slots of a section handed to has_conflict directly
MaxSlots == 2
\* the enumeration ceiling of the specification (there "e.g. 10,000"), at the scale
\* of the model; the program defines no such number
EnumerationCeiling == 3

----------------------------------------------------------------------------
(* Values *)

Range(s) == {s[i] : i \in 1..Len(s)}

\* Python's None, and a value that is not None
None == [none |-> TRUE, value |-> <<>>]
Some(v) == [none |-> FALSE, value |-> v]

\* datetime.time(hour, minute) raises ValueError unless 0 <= hour <= 23 and 0 <= minute <= 59
MaxHour == 23
MaxMinute == 59

\* parse_time: the time object, or None when time() raises
parse_time(time_str) ==
    IF time_str[1] <= MaxHour /\ time_str[2] <= MaxMinute
    THEN Some([hour |-> time_str[1], minute |-> time_str[2]])
    ELSE None

\* datetime.time ordering: by hour, then minute
time_lt(t1, t2) ==
    \/ t1.hour < t2.hour
    \/ t1.hour = t2.hour /\ t1.minute < t2.minute

\* a time object is always truthy (midnight too, on every Python that runs the
\* f-strings of this script), None is falsy
truthy(t) == ~t.none

\* mutant: only an interval starting strictly inside the other one counts
check_time_overlap_OneSided(slot1, slot2) ==
    LET start1 == parse_time(slot1.start)
        end1   == parse_time(slot1.end)
        start2 == parse_time(slot2.start)
        end2   == parse_time(slot2.end)
    IN  IF truthy(start1) /\ truthy(end1) /\ truthy(start2) /\ truthy(end2)
        THEN time_lt(start1.value, start2.value) /\ time_lt(start2.value, end1.value)
        ELSE FALSE

\* mutant: closed intervals, touching at a boundary counts as overlap
check_time_overlap_Closed(slot1, slot2) ==
    LET start1 == parse_time(slot1.start)
        end1   == parse_time(slot1.end)
        start2 == parse_time(slot2.start)
        end2   == parse_time(slot2.end)
    IN  IF truthy(start1) /\ truthy(end1) /\ truthy(start2) /\ truthy(end2)
        THEN ~time_lt(end2.value, start1.value) /\ ~time_lt(end1.value, start2.value)
        ELSE FALSE

check_time_overlap(slot1, slot2) ==
    LET start1 == parse_time(slot1.start)
        end1   == parse_time(slot1.end)
        start2 == parse_time(slot2.start)
        end2   == parse_time(slot2.end)
    IN  IF truthy(start1) /\ truthy(end1) /\ truthy(start2) /\ truthy(end2)
        THEN time_lt(start1.value, end2.value) /\ time_lt(start2.value, end1.value)
        ELSE FALSE

\* the nested loops of has_conflict from slot i of schedule1, slot j of schedule2 on
RECURSIVE has_conflict_from(_, _, _, _)
has_conflict_from(schedule1, schedule2, i, j) ==
    IF i > Len(schedule1) THEN FALSE
    ELSE IF j > Len(schedule2) THEN has_conflict_from(schedule1, schedule2, i + 1, 1)
    ELSE IF /\ schedule1[i].day = schedule2[j].day
            /\ check_time_overlap(schedule1[i], schedule2[j])
         THEN TRUE
         ELSE has_conflict_from(schedule1, schedule2, i, j + 1)

has_conflict(c1, c2) == has_conflict_from(c1.schedule, c2.schedule, 1, 1)

----------------------------------------------------------------------------
(* The catalog: extract_courses_from_pdf and the grouping by course code *)

Slot(d, s, e) == [day |-> d, start |-> s, end |-> e]
Course(c, sec, ins, sch) == [code |-> c, section |-> sec, instructor |-> ins, schedule |-> sch]

\* course codes (\d{2}[A-Z]{2}\d{3}) in sorted order
CourseCodes == <<"21CS101", "21CS102", "21CS103">>
\* the days the leave-day checkboxes of the model offer, in checkbox order
LeaveDayBoxes == <<"Monday", "Tuesday">>

\* the instructors of the section blocks
Instructors == {"T1", "T2"}

\* section blocks a timetable can hold: every time is two 2-digit numbers, the
\* schedule is non-empty (line 100); "25:99" matches the catalog regex
SectionBlocks ==
    { [section |-> "S1", instructor |-> "T1",
       schedule |-> <<Slot("Monday", <<9, 0>>, <<10, 0>>)>>],
      [section |-> "S2", instructor |-> "T2",
       schedule |-> <<Slot("Monday", <<11, 0>>, <<12, 0>>)>>],
      [section |-> "S3", instructor |-> "T2",
       schedule |-> <<Slot("Tuesday", <<9, 0>>, <<10, 0>>), Slot("Monday", <<25, 99>>, <<10, 0>>)>>] }

\* what extract_courses_from_pdf can append to courses: a matched time range goes
\* into the schedule as the strings the regex captured, unparsed
ExtractedCourses ==
    { Course(c, b.section, b.instructor, b.schedule) : c \in Range(CourseCodes), b \in SectionBlocks }

BoundedSeq(S, n) == UNION { [1..k -> S] : k \in 0..n }

\* courses_by_code after the grouping loop has handled all_courses[i..]
RECURSIVE group_by_code(_, _, _)
group_by_code(all_courses, i, acc) ==
    IF i > Len(all_courses) THEN acc
    ELSE LET course == all_courses[i]
             with_key == IF course.code \in DOMAIN acc THEN acc
                         ELSE acc @@ (course.code :> <<>>)
         IN  group_by_code(all_courses, i + 1,
                 [with_key EXCEPT ![course.code] = Append(@, course)])

EmptyDict == [k \in {} |-> <<>>]

\* sorted(courses_by_code.keys())
sorted_keys(d) == SelectSeq(CourseCodes, LAMBDA c : c \in DOMAIN d)

----------------------------------------------------------------------------
(* The constraint filter of the Generate handler *)

\* the loop over course.schedule with its break, from slot i on
RECURSIVE has_class_on_leave_from(_, _, _)
has_class_on_leave_from(schedule, i, leave) ==
    IF i > Len(schedule) THEN FALSE
    ELSE IF schedule[i].day \in Range(leave) THEN TRUE
    ELSE has_class_on_leave_from(schedule, i + 1, leave)

\* has_class_on_leave of one course: the loop runs only when leave_days is non-empty
has_class_on_leave(course, leave) ==
    IF Len(leave) > 0 THEN has_class_on_leave_from(course.schedule, 1, leave) ELSE FALSE

\* mutant: a requirement without checked teachers keeps no section
keeps_course_NoEntryDrops(code, course, leave, prefs) ==
    IF has_class_on_leave(course, leave) THEN FALSE
    ELSE IF code \in DOMAIN prefs THEN course.instructor \in prefs[code]
    ELSE FALSE

\* whether the loop body appends the course to filtered_sections[code]
keeps_course(code, course, leave, prefs) ==
    IF has_class_on_leave(course, leave) THEN FALSE
    ELSE IF code \in DOMAIN prefs THEN course.instructor \in prefs[code]
    ELSE TRUE

\* filtered_sections[code] after the loop over courses_by_code[code] has handled courses[i..]
RECURSIVE filter_from(_, _, _, _, _, _)
filter_from(code, courses, i, leave, prefs, acc) ==
    IF i > Len(courses) THEN acc
    ELSE filter_from(code, courses, i + 1, leave, prefs,
             IF keeps_course(code, courses[i], leave, prefs) THEN Append(acc, courses[i]) ELSE acc)

filter_sections(catalog, selected, leave, prefs) ==
    [code \in Range(selected) |-> filter_from(code, catalog[code], 1, leave, prefs, <<>>)]

----------------------------------------------------------------------------
(* find_best_schedule *)

\* all_sections: the candidate lists in the order of course_codes
all_sections_of(course_codes, sections_dict) ==
    [i \in 1..Len(course_codes) |-> sections_dict[course_codes[i]]]

\* the first tuple product(*all_sections) yields: none when a list is empty
first_position(all_sections) ==
    IF \E i \in 1..Len(all_sections) : Len(all_sections[i]) = 0
    THEN None
    ELSE Some([i \in 1..Len(all_sections) |-> 1])

\* the tuple after idx: the rightmost index that can still grow does, the ones to its
\* right start over; none when idx was the last tuple
RECURSIVE next_position_from(_, _, _)
next_position_from(all_sections, idx, i) ==
    IF i = 0 THEN None
    ELSE IF idx[i] < Len(all_sections[i])
         THEN Some([j \in 1..Len(idx) |-> IF j < i THEN idx[j] ELSE IF j = i THEN idx[j] + 1 ELSE 1])
         ELSE next_position_from(all_sections, idx, i - 1)

\* mutant: the leftmost list varies fastest
RECURSIVE next_position_LeftFirst_from(_, _, _)
next_position_LeftFirst_from(all_sections, idx, i) ==
    IF i > Len(idx) THEN None
    ELSE IF idx[i] < Len(all_sections[i])
         THEN Some([j \in 1..Len(idx) |-> IF j > i THEN idx[j] ELSE IF j = i THEN idx[j] + 1 ELSE 1])
         ELSE next_position_LeftFirst_from(all_sections, idx, i + 1)

next_position_LeftFirst(all_sections, idx) == next_position_LeftFirst_from(all_sections, idx, 1)

\* mutant: only the last list is iterated, the enumeration ends when it is used up
next_position_NoCarry(all_sections, idx) ==
    IF idx[Len(idx)] < Len(all_sections[Len(idx)])
    THEN Some([idx EXCEPT ![Len(idx)] = @ + 1])
    ELSE None

next_position(all_sections, idx) == next_position_from(all_sections, idx, Len(idx))

combination_at(all_sections, idx) == [i \in 1..Len(idx) |-> all_sections[i][idx[i]]]

\* the two loops over i and j > i with their breaks: has_any_conflict
RECURSIVE has_any_conflict_from(_, _, _)
has_any_conflict_from(combination, i, j) ==
    IF i > Len(combination) THEN FALSE
    ELSE IF j > Len(combination) THEN has_any_conflict_from(combination, i + 1, i + 2)
    ELSE IF has_conflict(combination[i], combination[j]) THEN TRUE
    ELSE has_any_conflict_from(combination, i, j + 1)

\* mutant: only neighbouring requirements are compared
has_any_conflict_AdjacentOnly(combination) ==
    \E i \in 1..(Len(combination) - 1) : has_conflict(combination[i], combination[i + 1])

has_any_conflict(combination) == has_any_conflict_from(combination, 1, 2)

----------------------------------------------------------------------------
(* The conflict explanation *)

\* all_conflict for one pair of candidate lists: the loops over s1 and s2 with their
\* breaks, from sections1[i], sections2[j] on
RECURSIVE all_conflict_from(_, _, _, _)
all_conflict_from(sections1, sections2, i, j) ==
    IF i > Len(sections1) THEN TRUE
    ELSE IF j > Len(sections2) THEN all_conflict_from(sections1, sections2, i + 1, 1)
    ELSE IF ~has_conflict(sections1[i], sections2[j]) THEN FALSE
    ELSE all_conflict_from(sections1, sections2, i, j + 1)

\* mutant: a pair is reported only when there are section pairs to compare
all_conflict_NonVacuous(sections1, sections2) ==
    /\ Len(sections1) > 0
    /\ Len(sections2) > 0
    /\ all_conflict_from(sections1, sections2, 1, 1)

all_conflict(sections1, sections2) == all_conflict_from(sections1, sections2, 1, 1)

\* the pairs (code1, code2) the two loops visit, in order
RECURSIVE explanation_pairs_from(_, _, _)
explanation_pairs_from(selected, i, j) ==
    IF i > Len(selected) THEN <<>>
    ELSE IF j > Len(selected) THEN explanation_pairs_from(selected, i + 1, i + 2)
    ELSE <<(<<selected[i], selected[j]>>)>> \o explanation_pairs_from(selected, i, j + 1)

\* mutant: only neighbouring requirements are paired
explanation_pairs_AdjacentOnly(selected) ==
    [i \in 1..(Len(selected) - 1) |-> <<selected[i], selected[i + 1]>>]

explanation_pairs(selected) == explanation_pairs_from(selected, 1, 2)

----------------------------------------------------------------------------
(* The script: upload, widgets, the Generate handler *)

NoCourse == Course("", "", "", <<>>)

\* list(set([s.instructor for s in sections]))
instructors_of(sections) == {sections[i].instructor : i \in 1..Len(sections)}

\* a non-empty list is truthy; None and [] are falsy
truthy_list(r) == ~r.none /\ Len(r.value) > 0

Init ==
    /\ pc = "upload"
    /\ courses_by_code = EmptyDict
    /\ selected_course_codes = <<>>
    /\ leave_days = <<>>
    /\ teacher_preferences = EmptyDict
    /\ filtered_sections = EmptyDict
    /\ position = None
    /\ inspected = <<>>
    /\ best_schedule = None
    /\ examined = <<>>
    /\ warnings = <<>>
    /\ course1 = NoCourse
    /\ course2 = NoCourse
    /\ conflict = None

\* a timetable with at least one section is uploaded and grouped by course code
Upload ==
    /\ pc = "upload"
    /\ \E all_courses \in BoundedSeq(ExtractedCourses, MaxCourses) :
        /\ Len(all_courses) > 0
        /\ courses_by_code' = group_by_code(all_courses, 1, EmptyDict)
    /\ pc' = "widgets"
    /\ UNCHANGED <<selected_course_codes, leave_days, teacher_preferences, filtered_sections,
                   position, inspected, best_schedule, examined, warnings,
                   course1, course2, conflict>>

\* the Generate button is pressed with some courses, leave days and teachers checked:
\* the sections are filtered and find_best_schedule starts on the filtered lists
Generate ==
    /\ pc = "widgets"
    /\ \E chosen \in (SUBSET DOMAIN courses_by_code) \ {{}} :
       \E leave \in SUBSET Range(LeaveDayBoxes) :
       \E checked \in [chosen -> SUBSET Instructors] :
        /\ \A code \in chosen : checked[code] \subseteq instructors_of(courses_by_code[code])
        /\ selected_course_codes' = SelectSeq(sorted_keys(courses_by_code), LAMBDA c : c \in chosen)
        /\ leave_days' = SelectSeq(LeaveDayBoxes, LAMBDA d : d \in leave)
        /\ teacher_preferences' = [code \in {c \in chosen : checked[c] # {}} |-> checked[code]]
    /\ filtered_sections' = filter_sections(courses_by_code, selected_course_codes',
                                            leave_days', teacher_preferences')
    /\ position' = first_position(all_sections_of(selected_course_codes', filtered_sections'))
    /\ inspected' = <<>>
    /\ best_schedule' = None
    /\ pc' = "search"
    /\ UNCHANGED <<courses_by_code, examined, warnings, course1, course2, conflict>>

\* mutant: a combination in conflict makes the search skip every later combination
\* that shares its shortest conflicting prefix
TryCombination_Pruned ==
    /\ pc = "search"
    /\ ~position.none
    /\ LET all_sections == all_sections_of(selected_course_codes, filtered_sections)
           combination == combination_at(all_sections, position.value)
           shortest == CHOOSE m \in 1..Len(combination) :
                           /\ has_any_conflict(SubSeq(combination, 1, m))
                           /\ \A l \in 1..(m - 1) : ~has_any_conflict(SubSeq(combination, 1, l))
       IN  /\ inspected' = Append(inspected, position.value)
           /\ IF has_any_conflict(combination)
              THEN /\ position' = next_position_from(all_sections, position.value, shortest)
                   /\ UNCHANGED <<best_schedule, pc>>
              ELSE /\ best_schedule' = Some(combination)
                   /\ pc' = "returned"
                   /\ UNCHANGED position
    /\ UNCHANGED <<courses_by_code, selected_course_codes, leave_days, teacher_preferences,
                   filtered_sections, examined, warnings, course1, course2, conflict>>

\* one iteration of the loop over product(*all_sections)
TryCombination ==
    /\ pc = "search"
    /\ ~position.none
    /\ LET all_sections == all_sections_of(selected_course_codes, filtered_sections)
           combination == combination_at(all_sections, position.value)
       IN  /\ inspected' = Append(inspected, position.value)
           /\ IF has_any_conflict(combination)
              THEN /\ position' = next_position(all_sections, position.value)
                   /\ UNCHANGED <<best_schedule, pc>>
              ELSE /\ best_schedule' = Some(combination)
                   /\ pc' = "returned"
                   /\ UNCHANGED position
    /\ UNCHANGED <<courses_by_code, selected_course_codes, leave_days, teacher_preferences,
                   filtered_sections, examined, warnings, course1, course2, conflict>>

\* product() is exhausted: find_best_schedule returns None
SearchExhausted ==
    /\ pc = "search"
    /\ position.none
    /\ best_schedule' = None
    /\ pc' = "returned"
    /\ UNCHANGED <<courses_by_code, selected_course_codes, leave_days, teacher_preferences,
                   filtered_sections, position, inspected, examined, warnings,
                   course1, course2, conflict>>

\* if best_schedule: the timetable is displayed
ShowSchedule ==
    /\ pc = "returned"
    /\ truthy_list(best_schedule)
    /\ pc' = "shown"
    /\ UNCHANGED <<courses_by_code, selected_course_codes, leave_days, teacher_preferences,
                   filtered_sections, position, inspected, best_schedule, examined, warnings,
                   course1, course2, conflict>>

\* else: the error and the pairs that conflict in all available sections
ExplainConflicts ==
    /\ pc = "returned"
    /\ ~truthy_list(best_schedule)
    /\ examined' = explanation_pairs(selected_course_codes)
    /\ warnings' = SelectSeq(examined',
           LAMBDA p : all_conflict(filtered_sections[p[1]], filtered_sections[p[2]]))
    /\ pc' = "explained"
    /\ UNCHANGED <<courses_by_code, selected_course_codes, leave_days, teacher_preferences,
                   filtered_sections, position, inspected, best_schedule,
                   course1, course2, conflict>>

\* the next script run without the button pressed: the result is gone, the catalog stays
Rerun ==
    /\ pc \in {"shown", "explained"}
    /\ pc' = "widgets"
    /\ selected_course_codes' = <<>>
    /\ leave_days' = <<>>
    /\ teacher_preferences' = EmptyDict
    /\ filtered_sections' = EmptyDict
    /\ position' = None
    /\ inspected' = <<>>
    /\ best_schedule' = None
    /\ examined' = <<>>
    /\ warnings' = <<>>
    /\ UNCHANGED <<courses_by_code, course1, course2, conflict>>

Next ==
    \/ Upload
    \/ Generate
    \/ TryCombination
    \/ SearchExhausted
    \/ ShowSchedule
    \/ ExplainConflicts
    \/ Rerun

Spec == Init /\ [][Next]_vars

----------------------------------------------------------------------------
(* has_conflict called on its own, on two sections drawn from bounded sets *)

\* time slots the catalog regex can produce: touching, overlapping, other day,
\* starting at midnight, end before start, and times that time() rejects
ConflictSlots ==
    { Slot("Monday",  <<9, 0>>,   <<10, 0>>),
      Slot("Monday",  <<10, 0>>,  <<11, 0>>),
      Slot("Monday",  <<9, 30>>,  <<10, 30>>),
      Slot("Tuesday", <<9, 0>>,   <<10, 0>>),
      Slot("Tuesday", <<0, 0>>,   <<9, 30>>),
      Slot("Monday",  <<10, 0>>,  <<9, 0>>),
      Slot("Monday",  <<25, 99>>, <<10, 0>>),
      Slot("Tuesday", <<9, 0>>,   <<9, 60>>) }

ConflictCourses ==
    { Course("21CS101", "S1", "T1", sch) : sch \in BoundedSeq(ConflictSlots, MaxSlots) \ {<<>>} }

InitConflict ==
    /\ pc = "has_conflict_call"
    /\ course1 \in ConflictCourses
    /\ course2 \in ConflictCourses
    /\ conflict = None
    /\ courses_by_code = EmptyDict
    /\ selected_course_codes = <<>>
    /\ leave_days = <<>>
    /\ teacher_preferences = EmptyDict
    /\ filtered_sections = EmptyDict
    /\ position = None
    /\ inspected = <<>>
    /\ best_schedule = None
    /\ examined = <<>>
    /\ warnings = <<>>

CallHasConflict ==
    /\ pc = "has_conflict_call"
    /\ conflict' = Some(has_conflict(course1, course2))
    /\ pc' = "has_conflict_returned"
    /\ UNCHANGED <<courses_by_code, selected_course_codes, leave_days, teacher_preferences,
                   filtered_sections, position, inspected, best_schedule, examined, warnings,
                   course1, course2>>

NextConflict == CallHasConflict

SpecConflict == InitConflict /\ [][NextConflict]_vars

----------------------------------------------------------------------------
(* Shared vocabulary of the properties *)

\* a time string that parses as a time of day
WellFormedTime(ts) == ts[1] \in 0..23 /\ ts[2] \in 0..59
\* minutes since midnight
Minutes(ts) == ts[1] * 60 + ts[2]
ParsesSlot(slot) == WellFormedTime(slot.start) /\ WellFormedTime(slot.end)
\* a well-formed TimeInterval: both times parse and start < end
WellFormedSlot(slot) == ParsesSlot(slot) /\ Minutes(slot.start) < Minutes(slot.end)
\* the half-open overlap rule on two slots
Overlaps(a, b) ==
    /\ a.day = b.day
    /\ Minutes(a.start) < Minutes(b.end)
    /\ Minutes(b.start) < Minutes(a.end)
\* some slot of c1 overlaps some slot of c2
SlotsOverlap(c1, c2) ==
    \E a \in Range(c1.schedule) : \E b \in Range(c2.schedule) : Overlaps(a, b)
AllSlotsParse(c) == \A a \in Range(c.schedule) : ParsesSlot(a)


----------------------------------------------------------------------------
(* C3: on sections whose time slots all parse, has_conflict answers true exactly
   when some slot of the first and some slot of the second lie on the same day
   with a.start < b.end and b.start < a.end; so slots that only touch, or lie on
   different days, do not conflict, and the answer is the same with the two
   sections swapped. *)
C3_OverlapRule ==
    (pc = "has_conflict_returned" /\ AllSlotsParse(course1) /\ AllSlotsParse(course2))
        => /\ conflict.value = SlotsOverlap(course1, course2)
           /\ conflict.value = has_conflict(course2, course1)

\* two parsed sections whose slots touch at 10:00 on the same day were found conflict-free
C3_Witness ==
    /\ pc = "has_conflict_returned"
    /\ AllSlotsParse(course1) /\ AllSlotsParse(course2)
    /\ \E a \in Range(course1.schedule) : \E b \in Range(course2.schedule) :
           a.day = b.day /\ a.end = b.start /\ WellFormedSlot(a) /\ WellFormedSlot(b)
    /\ conflict.value = FALSE

(* C6 as stated: a time slot that does not parse never reaches the search, and the
   overlap rule never answers "no conflict" for two same-day slots of which one
   does not parse: no combination the search examines holds a section with such
   a slot, and no such slot pair of an examined combination is found disjoint. *)
C6_MalformedNeverSearched ==
    \A k \in 1..Len(inspected) :
        LET combination == combination_at(
                all_sections_of(selected_course_codes, filtered_sections), inspected[k])
        IN  /\ \A c \in Range(combination) : AllSlotsParse(c)
            /\ \A i \in 1..Len(combination) : \A j \in (i + 1)..Len(combination) :
                 \A a \in Range(combination[i].schedule) :
                 \A b \in Range(combination[j].schedule) :
                    (a.day = b.day /\ ~(ParsesSlot(a) /\ ParsesSlot(b)))
                        => check_time_overlap(a, b)

(* C8 as stated: a section with a well-formed slot never conflicts with itself. *)
C8_ReflexiveFalse ==
    (/\ pc = "has_conflict_returned"
     /\ course1 = course2
     /\ \E a \in Range(course1.schedule) : WellFormedSlot(a))
        => conflict.value = FALSE

(* C8 amended: a section with at least one well-formed slot (both times parse,
   start before end) always conflicts with itself. *)
C8_ReflexiveTrue ==
    (/\ pc = "has_conflict_returned"
     /\ course1 = course2
     /\ \E a \in Range(course1.schedule) : WellFormedSlot(a))
        => conflict.value = TRUE

\* has_conflict(s, s) returned true for a section with a well-formed and a malformed slot
C8_Witness ==
    /\ pc = "has_conflict_returned"
    /\ course1 = course2
    /\ \E a \in Range(course1.schedule) : WellFormedSlot(a)
    /\ \E a \in Range(course1.schedule) : ~ParsesSlot(a)
    /\ conflict.value = TRUE


----------------------------------------------------------------------------
(* Vocabulary of the handler properties *)

\* the Generate handler has filtered and called find_best_schedule
SearchStarted == pc \in {"search", "returned", "shown", "explained"}
\* find_best_schedule has returned
SearchReturned == pc \in {"returned", "shown", "explained"}

\* the candidate lists handed to find_best_schedule
Candidates == all_sections_of(selected_course_codes, filtered_sections)

LongestList(lists) ==
    IF Len(lists) = 0 THEN 0
    ELSE CHOOSE m \in {Len(lists[i]) : i \in 1..Len(lists)} :
             \A i \in 1..Len(lists) : Len(lists[i]) <= m

\* the cross product of the candidate lists, as index vectors
CrossProduct(lists) ==
    { idx \in [1..Len(lists) -> 1..LongestList(lists)] :
        \A i \in 1..Len(lists) : idx[i] <= Len(lists[i]) }

\* one section per requirement with no two of them in conflict
ConflictFree(assignment) ==
    \A i \in 1..Len(assignment) : \A j \in (i + 1)..Len(assignment) :
        ~has_conflict(assignment[i], assignment[j])

\* depth-first, left-to-right backtracking with pruning: requirement i takes its
\* candidates in catalog order, a candidate in conflict with a section already
\* chosen is skipped without recursing, the first complete assignment is returned
RECURSIVE Backtrack(_, _, _), BacktrackFrom(_, _, _, _)
Backtrack(lists, i, chosen) ==
    IF i > Len(lists) THEN Some(chosen) ELSE BacktrackFrom(lists, i, chosen, 1)
BacktrackFrom(lists, i, chosen, k) ==
    IF k > Len(lists[i]) THEN None
    ELSE IF \E m \in 1..Len(chosen) : has_conflict(chosen[m], lists[i][k])
         THEN BacktrackFrom(lists, i, chosen, k + 1)
         ELSE LET found == Backtrack(lists, i + 1, Append(chosen, lists[i][k]))
              IN  IF found.none THEN BacktrackFrom(lists, i, chosen, k + 1) ELSE found

Schedules(sections) == [i \in 1..Len(sections) |-> sections[i].schedule]

(* C1: a schedule returned by find_best_schedule holds one section per selected
   requirement, in requirement order, each out of that requirement's filtered
   candidate list, and no two of its sections conflict under has_conflict. *)
C1_ValidSchedule ==
    ~best_schedule.none =>
        LET schedule == best_schedule.value
        IN  /\ Len(schedule) = Len(selected_course_codes)
            /\ \A i \in 1..Len(schedule) :
                 /\ schedule[i].code = selected_course_codes[i]
                 /\ schedule[i] \in Range(filtered_sections[selected_course_codes[i]])
            /\ ConflictFree(schedule)

\* a schedule for three requirements was returned after conflicting combinations were passed over
C1_Witness ==
    /\ pc = "shown"
    /\ Len(best_schedule.value) = 3
    /\ Len(inspected) >= 2

(* C2: find_best_schedule returns what the depth-first left-to-right backtracking
   search with pruning returns: the first conflict-free assignment in that order,
   and None exactly when the cross product holds no conflict-free assignment.
   With A = [Mon 09:00-10:00] and B = [Mon 09:00-10:00, Mon 11:00-12:00] the
   result is A's section with B's second. *)
C2_EqualsBacktracking ==
    SearchReturned =>
        /\ best_schedule = Backtrack(Candidates, 1, <<>>)
        /\ best_schedule.none <=>
             ~\E idx \in CrossProduct(Candidates) : ConflictFree(combination_at(Candidates, idx))
        /\ (/\ Len(Candidates) = 2
            /\ Schedules(Candidates[1]) = <<(<<Slot("Monday", <<9, 0>>, <<10, 0>>)>>)>>
            /\ Schedules(Candidates[2]) = << <<Slot("Monday", <<9, 0>>, <<10, 0>>)>>,
                                             <<Slot("Monday", <<11, 0>>, <<12, 0>>)>> >>)
              => best_schedule = Some(<<Candidates[1][1], Candidates[2][2]>>)

\* the scenario of the claim: B1 was passed over, A1 with B2 was returned
C2_Witness ==
    /\ pc = "shown"
    /\ Len(Candidates) = 2
    /\ Schedules(Candidates[1]) = <<(<<Slot("Monday", <<9, 0>>, <<10, 0>>)>>)>>
    /\ Schedules(Candidates[2]) = << <<Slot("Monday", <<9, 0>>, <<10, 0>>)>>,
                                     <<Slot("Monday", <<11, 0>>, <<12, 0>>)>> >>
    /\ inspected = << <<1, 1>>, <<1, 2>> >>
    /\ best_schedule.value = <<Candidates[1][1], Candidates[2][2]>>

\* a section admissible for a requirement under the leave days and teachers checked
Admissible(code, course) ==
    /\ \A slot \in Range(course.schedule) : slot.day \notin Range(leave_days)
    /\ code \in DOMAIN teacher_preferences => course.instructor \in teacher_preferences[code]

(* C4: each selected requirement's filtered list is the subsequence, in catalog
   order, of its sections that have no slot on a leave day and whose instructor
   is among the requirement's checked teachers when it has an entry; an entry
   exists only where a teacher is checked, and without one no section is dropped
   for its instructor. *)
C4_FilterIsSubsequence ==
    SearchStarted =>
        /\ DOMAIN filtered_sections = Range(selected_course_codes)
        /\ \A code \in DOMAIN teacher_preferences :
             /\ code \in Range(selected_course_codes)
             /\ teacher_preferences[code] # {}
        /\ \A code \in Range(selected_course_codes) :
             filtered_sections[code] =
                 SelectSeq(courses_by_code[code], LAMBDA course : Admissible(code, course))

\* one requirement without checked teachers lost a section to a leave day only, another
\* lost a section to its checked teachers
C4_Witness ==
    /\ pc = "search"
    /\ Len(leave_days) > 0
    /\ \E code \in Range(selected_course_codes) :
         /\ code \notin DOMAIN teacher_preferences
         /\ Cardinality(instructors_of(courses_by_code[code])) = 2
         /\ Len(filtered_sections[code]) = 1
         /\ Len(courses_by_code[code]) = 2
    /\ \E code \in Range(selected_course_codes) :
         /\ code \in DOMAIN teacher_preferences
         /\ \E i \in 1..Len(courses_by_code[code]) :
              /\ courses_by_code[code][i].instructor \notin teacher_preferences[code]
              /\ \A slot \in Range(courses_by_code[code][i].schedule) :
                   slot.day \notin Range(leave_days)

(* C5 as stated: when filtering leaves a selected requirement without candidates,
   the error is reported before the search begins and the search is not run. *)
C5_EmptyCandidateFailsFast ==
    SearchStarted =>
        \A code \in Range(selected_course_codes) : Len(filtered_sections[code]) > 0


----------------------------------------------------------------------------
\* every candidate-section pair between the two requirements conflicts
FullyBlocked(code1, code2) ==
    \A s1 \in Range(filtered_sections[code1]) : \A s2 \in Range(filtered_sections[code2]) :
        has_conflict(s1, s2)

(* C7: when two selected requirements are fully blocked, the search returns no
   assignment and the explanation reports that pair; the explanation runs only
   after the search returned no assignment; no unordered pair of requirements is
   examined or reported twice. *)
C7_BlockedPairReported ==
    /\ SearchReturned =>
         \A i \in 1..Len(selected_course_codes) : \A j \in (i + 1)..Len(selected_course_codes) :
            FullyBlocked(selected_course_codes[i], selected_course_codes[j])
                => /\ best_schedule.none
                   /\ pc # "shown"
                   /\ pc = "explained" =>
                        <<selected_course_codes[i], selected_course_codes[j]>> \in Range(warnings)
    /\ pc = "explained" => best_schedule.none
    /\ pc # "explained" => (examined = <<>> /\ warnings = <<>>)
    /\ Range(warnings) \subseteq Range(examined)
    /\ \A k \in 1..Len(examined) : \A l \in 1..Len(examined) :
         k # l => /\ examined[k] # examined[l]
                  /\ examined[k] # <<examined[l][2], examined[l][1]>>
    /\ \A k \in 1..Len(warnings) : \A l \in 1..Len(warnings) :
         k # l => /\ warnings[k] # warnings[l]
                  /\ warnings[k] # <<warnings[l][2], warnings[l][1]>>

\* three requirements with candidates each, the first and the third fully blocked and reported
C7_Witness ==
    /\ pc = "explained"
    /\ Len(selected_course_codes) = 3
    /\ \A code \in Range(selected_course_codes) : Len(filtered_sections[code]) > 0
    /\ Len(inspected) > 0
    /\ warnings = <<(<<selected_course_codes[1], selected_course_codes[3]>>)>>

\* the product of the lengths of lists[i..]
RECURSIVE ProductOfLengths(_, _)
ProductOfLengths(lists, i) ==
    IF i > Len(lists) THEN 1 ELSE Len(lists[i]) * ProductOfLengths(lists, i + 1)

\* the k-th tuple (from 0) of the cross product in lexicographic order, last list fastest
NthTuple(lists, k) ==
    [i \in 1..Len(lists) |-> ((k \div ProductOfLengths(lists, i + 1)) % Len(lists[i])) + 1]

C10_Prunes ==
    \A k \in 1..Len(inspected) : \A l \in (k + 1)..Len(inspected) :
        ~\E m \in 1..(Len(Candidates) - 1) :
            /\ SubSeq(inspected[k], 1, m) = SubSeq(inspected[l], 1, m)
            /\ has_any_conflict(combination_at(Candidates, SubSeq(inspected[k], 1, m)))

(* C10 amended: the search does not prune.  It inspects complete combinations of
   the cross product one after the other in product order (the last requirement
   varying fastest), every combination before the one it returns is in conflict,
   so combinations sharing a conflicting prefix are each inspected. *)
C10_EnumeratesCrossProduct ==
    SearchStarted =>
        /\ \A k \in 1..Len(inspected) :
             /\ Len(inspected[k]) = Len(selected_course_codes)
             /\ inspected[k] = NthTuple(Candidates, k - 1)
             /\ (k < Len(inspected) \/ best_schedule.none)
                  => ~ConflictFree(combination_at(Candidates, inspected[k]))
        /\ (pc = "search" /\ ~position.none)
             => position.value = NthTuple(Candidates, Len(inspected))
        /\ (SearchReturned /\ best_schedule.none)
             => Range(inspected) = CrossProduct(Candidates)

\* both combinations that extend the conflicting pair of the first two requirements were inspected
C10_Witness ==
    /\ pc = "explained"
    /\ Len(selected_course_codes) = 3
    /\ inspected = << <<1, 1, 1>>, <<1, 1, 2>> >>
    /\ has_conflict(Candidates[1][1], Candidates[2][1])

----------------------------------------------------------------------------
\* the selected requirements that filtering left without a candidate section
EmptyRequirements ==
    {code \in Range(selected_course_codes) : Len(filtered_sections[code]) = 0}

(* C11: when at least two requirements are selected and filtering leaves one of
   them without candidates, find_best_schedule inspects no combination and
   returns None, the timetable is never shown, and the explanation reports every
   pair of requirements that holds the emptied one as conflicting in all
   available sections, although no two of their sections conflict. *)
C11_EmptyListReportedAsConflict ==
    (SearchStarted /\ Len(selected_course_codes) >= 2 /\ EmptyRequirements # {}) =>
        /\ inspected = <<>>
        /\ position.none
        /\ best_schedule.none
        /\ pc # "shown"
        /\ pc = "explained" =>
             \A i \in 1..Len(selected_course_codes) : \A j \in (i + 1)..Len(selected_course_codes) :
                (selected_course_codes[i] \in EmptyRequirements
                   \/ selected_course_codes[j] \in EmptyRequirements)
                    => /\ <<selected_course_codes[i], selected_course_codes[j]>> \in Range(warnings)
                       /\ ~\E s1 \in Range(filtered_sections[selected_course_codes[i]]) :
                            \E s2 \in Range(filtered_sections[selected_course_codes[j]]) :
                                has_conflict(s1, s2)

\* three requirements, the second one emptied by the filter: both pairs that hold it
\* were reported, the pair of the other two, which has a conflict-free choice, was not
C11_Witness ==
    /\ pc = "explained"
    /\ Len(selected_course_codes) = 3
    /\ EmptyRequirements = {selected_course_codes[2]}
    /\ inspected = <<>>
    /\ best_schedule.none
    /\ warnings = << <<selected_course_codes[1], selected_course_codes[2]>>,
                     <<selected_course_codes[2], selected_course_codes[3]>> >>
    /\ ~FullyBlocked(selected_course_codes[1], selected_course_codes[3])

====
